---- MODULE Spec2Model ----
(***************************************************************************)
(* Model of omni.isaac.matterport: the Matterport importer extension       *)
(* (scripts/matterport_ext.py) and its importer                            *)
(* (domains/matterport_importer.py).                                       *)
(*                                                                         *)
(* The extension keeps a frame-driven import job (_import_running,         *)
(* _import_state, _import_future, _sim, _importer) advanced by _on_update  *)
(* once per frame, a synchronous USD fast path, and the programmatic       *)
(* coroutine import_matterport_asset_async.  The USD stage, the file       *)
(* system, the SimulationContext singleton and Kit's event loop are the    *)
(* environment: their outcomes are nondeterministic inputs of the actions. *)
(***************************************************************************)
EXTENDS Integers, Sequences, FiniteSets, TLC

VARIABLES
    _prim_path,           \* MatterPortExtension._prim_path (UI state)
    _input_file,          \* MatterPortExtension._input_file (UI state)
    _import_btn_enabled,  \* self._import_btn.enabled
    _status_label,        \* self._status_label.text (also posted as notification)
    _import_running,      \* re-entrancy flag of the frame-driven job
    _import_state,        \* state of the frame-driven job
    _import_future,       \* future of the task the job waits for
    _sim,                 \* SimulationContext the job created
    _importer,            \* MatterportImporter the job created
    sim_instance,         \* SimulationContext.instance(), 0 when there is none
    files,                \* paths that exist on the file system
    stage,                \* the USD stage: prims, references, colliders, invisible prims
    log_error,            \* last exception logged by _on_update's handler (carb.log_error)
    escaped,              \* TRUE once an exception left _on_update
    edits,                \* number of edits of the two text fields so far
    warned_running,       \* TRUE once "Import already running; ignoring request." was logged
    calls,                \* activations of import_matterport_asset_async
    script,               \* the last direct call of a module-level scene function
    request,              \* _prim_path and _input_file as they were when the job was accepted
    loader                \* a MatterportImporter a script drives, and the activations of its
                          \* entry points

vars == <<_prim_path, _input_file, _import_btn_enabled, _status_label,
          _import_running, _import_state, _import_future, _sim, _importer,
          sim_instance, files, stage, log_error, escaped, warned_running, calls, edits, script,
          request, loader>>

ui_vars == <<_prim_path, _input_file, _import_btn_enabled, _status_label, edits>>
job_vars == <<_import_running, _import_state, _import_future, _sim, _importer>>
world_vars == <<sim_instance, files, stage>>
log_vars == <<log_error, escaped, warned_running, script, request>>

-----------------------------------------------------------------------------
(* Bounds of the model *)

\* number of import_matterport_asset_async activations a behaviour starts
MaxCalls == 2

\* number of edits of the prim path and input file fields in a behaviour
MaxEdits == 2

\* number of setup_async / load_world_async / load_matterport activations a
\* script starts on one importer
MaxLoads == 2

-----------------------------------------------------------------------------
(* Paths.  A file path is a record of its directory, base name and         *)
(* extension, so that os.path.splitext, str.lower and os.path.join can be  *)
(* modelled by what they do.                                               *)

EmptyPath == [dir |-> "", base |-> "", ext |-> ""]
Path(d, b, e) == [dir |-> d, base |-> b, ext |-> e]

\* str.lower() on the extensions of the model
Lower(s) ==
    CASE s = ".OBJ" -> ".obj"
      [] s = ".USD" -> ".usd"
      [] s = ".TXT" -> ".txt"
      [] OTHER -> s

\* os.path.splitext(path): (root, ext)
SplitExt(p) == <<[p EXCEPT !.ext = ""], p.ext>>

\* root + ext (string concatenation onto a splitext root)
WithExt(root, e) == [root EXCEPT !.ext = e]

\* os.path.isabs(path)
IsAbs(p) == p.dir # ""

\* os.path.join(base_dir, path) for a relative path
Join(d, p) == [p EXCEPT !.dir = d]

\* directory get_extension_path(ext_id)/data
ExtDataDir == "/ext/data"

\* path.lower().endswith(".usd")
EndsWithUsd(p) == Lower(p.ext) = ".usd"

\* the paths the user interface and the callers hand in
InputFiles == {Path("", "room", ".obj"), Path("", "room", ".USD")}
OtherFiles == {Path("", "room", ".txt")}

\* the files that may exist before the program runs
FileUniverse == {Path("", "room", ".usd"), Path(ExtDataDir, "room", ".obj")}

PrimPaths == {"", "/World/terrain"}

MATTERPORT_CHILD_PRIM_NAME == "Matterport"

ChildPath(prim_path) == prim_path \o "/" \o MATTERPORT_CHILD_PRIM_NAME

-----------------------------------------------------------------------------
(* Exceptions.  A call that may raise returns a record whose exc field is  *)
(* "none" or the name of the exception raised.                             *)

NoExc == "none"

\* the exceptions of the model; all derive from Python's Exception
ExceptionKinds == {"ValueError", "FileNotFoundError", "AttributeError",
                   "RuntimeError", "TfError"}

\* mutant: the handler is `except RuntimeError`
IsException_RuntimeOnly(exc) == exc = "RuntimeError"

\* isinstance(exc, Exception): what `except Exception` catches
IsException(exc) == exc \in ExceptionKinds

-----------------------------------------------------------------------------
(* The USD stage.  stage.prims is the set of prim paths that exist,        *)
(* stage.refs[p] the list of references composed on prim p,                *)
(* stage.colliders the prims with collision properties and                 *)
(* stage.invisible the prims made invisible.  A stage is always open       *)
(* (_get_stage never raises in the model).                                 *)

EmptyStage == [prims |-> {}, refs |-> <<>>, colliders |-> {}, invisible |-> {}]

\* stage.GetPrimAtPath(path) as a truth value
PrimValid(st, path) == path \in st.prims

\* stage.DefinePrim(path, "Xform") for a prim that does not exist yet
DefinePrim(st, path) ==
    [st EXCEPT !.prims = @ \cup {path},
               !.refs = [q \in DOMAIN @ \cup {path} |-> IF q \in DOMAIN @ THEN @[q] ELSE <<>>]]

\* _ensure_container_prim(stage, prim_path); Sdf.Path("") is the empty path,
\* which DefinePrim refuses
_ensure_container_prim(st, prim_path) ==
    IF prim_path = ""
    THEN [exc |-> "TfError", stage |-> st, value |-> ""]
    ELSE LET st1 == IF ~PrimValid(st, prim_path) THEN DefinePrim(st, prim_path) ELSE st
             child_path == ChildPath(prim_path)
             st2 == IF ~PrimValid(st1, child_path) THEN DefinePrim(st1, child_path) ELSE st1
         IN  [exc |-> NoExc, stage |-> st2, value |-> child_path]

\* mutant: the references of the child prim are not cleared before adding
import_matterport_usd_reference_NoClear(st, prim_path, usd_path) ==
    LET c == _ensure_container_prim(st, prim_path)
    IN  IF c.exc # NoExc
        THEN c
        ELSE LET added == [c.stage EXCEPT !.refs[c.value] = Append(@, usd_path)]
             IN  [exc |-> NoExc, stage |-> added, value |-> c.value]

\* import_matterport_usd_reference(prim_path, usd_path)
import_matterport_usd_reference(st, prim_path, usd_path) ==
    LET c == _ensure_container_prim(st, prim_path)
    IN  IF c.exc # NoExc
        THEN c
        ELSE LET cleared == [c.stage EXCEPT !.refs[c.value] = <<>>]
                 added == [cleared EXCEPT !.refs[c.value] = Append(@, usd_path)]
             IN  [exc |-> NoExc, stage |-> added, value |-> c.value]

\* what sim_utils.define_collision_properties(path, cfg) does to a prim
DefineCollision(st, path) == [st EXCEPT !.colliders = @ \cup {path}]

\* sim_utils.define_collision_properties(path, cfg) (isaaclab): it raises
\* ValueError for a path without a prim, and coll_ok tells whether the
\* library applies the properties or raises
define_collision_properties(st, path, coll_ok) ==
    IF PrimValid(st, path) /\ coll_ok
    THEN [exc |-> NoExc, stage |-> DefineCollision(st, path)]
    ELSE [exc |-> "ValueError", stage |-> st]

\* mutant: the collider is defined without looking for the prim
apply_matterport_collision_Unchecked(st, prim_path, coll_ok) ==
    [exc |-> NoExc, stage |-> DefineCollision(st, ChildPath(prim_path)),
     value |-> ChildPath(prim_path)]

\* apply_matterport_collision(prim_path)
apply_matterport_collision(st, prim_path, coll_ok) ==
    LET child_path == ChildPath(prim_path)
        r == define_collision_properties(st, child_path, coll_ok)
    IN  IF ~PrimValid(st, child_path)
        THEN [exc |-> "RuntimeError", stage |-> st, value |-> ""]
        ELSE IF r.exc # NoExc
        THEN [exc |-> r.exc, stage |-> st, value |-> ""]
        ELSE [exc |-> NoExc, stage |-> r.stage, value |-> child_path]

GroundPlanePath == "/World/GroundPlane"

\* mutant: a plane that is already there is removed
ensure_hidden_ground_plane_Toggle(st, path, coll_ok) ==
    IF PrimValid(st, path \o "/Plane")
    THEN [st EXCEPT !.prims = @ \ {path \o "/Plane"}]
    ELSE DefineCollision(DefinePrim(DefinePrim(st, path), path \o "/Plane"), path \o "/Plane")

\* ensure_hidden_ground_plane(path); an exception of
\* define_collision_properties is logged as a warning (lines 118-122)
ensure_hidden_ground_plane(st, path, coll_ok) ==
    LET plane_path == path \o "/Plane"
        st1 == IF ~PrimValid(st, path) THEN DefinePrim(st, path) ELSE st
        st2 == IF ~PrimValid(st1, plane_path) THEN DefinePrim(st1, plane_path) ELSE st1
        st3 == [st2 EXCEPT !.invisible = @ \cup {plane_path}]
    IN  define_collision_properties(st3, plane_path, coll_ok).stage

-----------------------------------------------------------------------------
(* The SimulationContext singleton.  Instances are numbered; 0 is None.    *)

NoSim == 0
SimIds == 1..(MaxCalls + 3)

\* the instances somebody still refers to
SimsInUse == {sim_instance, _sim} \cup {calls[c].sim : c \in DOMAIN calls}

\* SimulationContext(SimulationCfg()): a new instance becomes the singleton
NewSim == CHOOSE i \in SimIds : i \notin SimsInUse

-----------------------------------------------------------------------------
(* MatterportImporter and MatterportConverter.  An importer is a record of *)
(* its configuration, its fields and the position (pc) of its              *)
(* load_world_async coroutine:                                             *)
(*   "scheduled"       handed to the event loop, not started               *)
(*   "convert"         awaiting task.wait_until_finished()     (line 54)   *)
(*   "sleep"           awaiting asyncio.sleep(0)               (line 135)  *)
(*   "update_import"   awaiting update_stage_async()           (line 139)  *)
(*   "update_physics"  awaiting update_stage_async()           (line 158)  *)
(*   "update_setup"    awaiting update_stage_async()           (line 116)  *)
(*   "update_world"    awaiting update_stage_async()           (line 171)  *)
(*   "returned", "raised"                                                  *)

NoImporter ==
    [pc |-> "None", prim_path |-> "", obj_filepath |-> EmptyPath, groundplane |-> FALSE,
     _is_terrain_imported |-> FALSE, terrain_prim_paths |-> {}, conv_status |-> "none",
     exc |-> NoExc]

\* MatterportImporter.__init__(cfg) with cfg = MatterportImporterCfg(prim_path,
\* obj_filepath, groundplane); instance is SimulationContext.instance()
MatterportImporter(prim_path, obj_filepath, groundplane, instance) ==
    LET imp == [NoImporter EXCEPT !.pc = "scheduled", !.prim_path = prim_path,
                                  !.obj_filepath = obj_filepath,
                                  !.groundplane = groundplane]
    IN  \* _minimal_terrain_importer_init
        IF prim_path = "" THEN [exc |-> "ValueError", imp |-> NoImporter]
        ELSE IF instance = NoSim THEN [exc |-> "AttributeError", imp |-> NoImporter]
        ELSE [exc |-> NoExc, imp |-> imp]

\* usd_path of _import_matterport_terrain_async (lines 121-122)
UsdPathOf(obj_filepath) ==
    LET base_path == SplitExt(obj_filepath)[1]
        ext == SplitExt(obj_filepath)[2]
    IN  IF Lower(ext) = ".obj" THEN WithExt(base_path, ".usd") ELSE obj_filepath

\* dst of MatterportConverter.convert_asset_to_usd (lines 51-52)
ConverterDst(input_obj) == WithExt(SplitExt(input_obj)[1], ".usd")

\* mutant: every .obj is converted, whether or not its .usd exists
NeedsConversion_Always(obj_filepath, fs) == Lower(SplitExt(obj_filepath)[2]) = ".obj"

\* "Convert if needed and permitted" (line 125)
NeedsConversion(obj_filepath, fs) ==
    UsdPathOf(obj_filepath) \notin fs /\ Lower(SplitExt(obj_filepath)[2]) = ".obj"

Raised(imp, fs, st, exc) ==
    [imp |-> [imp EXCEPT !.pc = "raised", !.exc = exc], files |-> fs, stage |-> st]

At(imp, fs, st, pc) == [imp |-> [imp EXCEPT !.pc = pc], files |-> fs, stage |-> st]

\* lines 130-135: the file must exist now; then yield once
CheckUsdExists(imp, fs, st) ==
    IF UsdPathOf(imp.obj_filepath) \notin fs
    THEN Raised(imp, fs, st, "FileNotFoundError")
    ELSE At(imp, fs, st, "sleep")

\* mutant: import_usd does not look at the terrains already imported
import_usd_NoCheck(imp, st, usd_path) ==
    LET prim == ChildPath(imp.prim_path)
        withParent == IF PrimValid(st, imp.prim_path) THEN st ELSE DefinePrim(st, imp.prim_path)
        spawned == IF PrimValid(st, prim) THEN st
                   ELSE [DefinePrim(withParent, prim) EXCEPT !.refs[prim] = <<usd_path>>]
    IN  [exc |-> NoExc,
         imp |-> [imp EXCEPT !.terrain_prim_paths = @ \cup {prim}],
         stage |-> spawned]

\* TerrainImporter.import_usd(name, usd_path) (isaaclab), called at line 138:
\* refuses a terrain already imported by this importer, else spawns the file
\* at {cfg.prim_path}/{name} unless a prim is already there
import_usd(imp, st, usd_path) ==
    LET prim == ChildPath(imp.prim_path)
        withParent == IF PrimValid(st, imp.prim_path) THEN st ELSE DefinePrim(st, imp.prim_path)
        spawned == IF PrimValid(st, prim) THEN st
                   ELSE [DefinePrim(withParent, prim) EXCEPT !.refs[prim] = <<usd_path>>]
    IN  IF prim \in imp.terrain_prim_paths
        THEN [exc |-> "ValueError", imp |-> imp, stage |-> st]
        ELSE [exc |-> NoExc,
              imp |-> [imp EXCEPT !.terrain_prim_paths = @ \cup {prim}],
              stage |-> spawned]

\* _apply_physics_async up to its await (lines 144-158); GroundPlaneCfg.func
\* (isaaclab spawn_ground_plane) refuses a path that already holds a prim
_apply_physics(imp, st, coll_ok) ==
    LET matterport_prim_path == ChildPath(imp.prim_path)
        r == define_collision_properties(st, matterport_prim_path, coll_ok)
        collided == r.stage
    IN  IF matterport_prim_path \notin imp.terrain_prim_paths
        THEN [exc |-> NoExc, stage |-> st]
        ELSE IF r.exc # NoExc
        THEN [exc |-> r.exc, stage |-> st]
        ELSE IF ~imp.groundplane
        THEN [exc |-> NoExc, stage |-> collided]
        ELSE IF PrimValid(collided, GroundPlanePath)
        THEN [exc |-> "ValueError", stage |-> collided]
        ELSE [exc |-> NoExc, stage |-> DefinePrim(collided, GroundPlanePath)]

\* One run of the load_world_async coroutine of importer imp, from the await it
\* is suspended at to its next await, its return or its raise.  conv_ok is the
\* outcome of the converter task (task.wait_until_finished()), coll_ok that of
\* define_collision_properties.
ImporterStep(imp, fs, st, conv_ok, coll_ok) ==
    CASE imp.pc = "scheduled" ->
            \* load_world_async -> setup_async (lines 169-170, 110-113)
            IF imp._is_terrain_imported
            THEN At(imp, fs, st, "update_world")
            ELSE IF NeedsConversion(imp.obj_filepath, fs)
            THEN \* convert_asset_to_usd: create_converter_task, await it
                 At([imp EXCEPT !.conv_status = "pending"], fs, st, "convert")
            ELSE CheckUsdExists(imp, fs, st)
      [] imp.pc = "convert" ->
            \* lines 54-61: a failed conversion is logged, nothing is raised
            IF conv_ok
            THEN CheckUsdExists([imp EXCEPT !.conv_status = "ok"],
                                fs \cup {ConverterDst(imp.obj_filepath)}, st)
            ELSE CheckUsdExists([imp EXCEPT !.conv_status = "failed"], fs, st)
      [] imp.pc = "sleep" ->
            \* lines 138-139
            LET r == import_usd(imp, st, UsdPathOf(imp.obj_filepath))
            IN  IF r.exc # NoExc THEN Raised(imp, fs, st, r.exc)
                ELSE At(r.imp, fs, r.stage, "update_import")
      [] imp.pc = "update_import" ->
            \* line 142
            LET r == _apply_physics(imp, st, coll_ok)
            IN  IF r.exc # NoExc THEN Raised(imp, fs, r.stage, r.exc)
                ELSE At(imp, fs, r.stage, "update_physics")
      [] imp.pc = "update_physics" ->
            \* lines 114-116: configure_env_origins, set_debug_vis
            At(imp, fs, st, "update_setup")
      [] imp.pc = "update_setup" ->
            \* lines 117-118, then line 171
            At([imp EXCEPT !._is_terrain_imported = TRUE], fs, st, "update_world")
      [] imp.pc = "update_world" ->
            At(imp, fs, st, "returned")
      [] OTHER -> At(imp, fs, st, imp.pc)

ImporterRunning(imp) == imp.pc \notin {"None", "returned", "raised"}

-----------------------------------------------------------------------------
(* Futures returned by run_coroutine.  The job holds at most one; None is  *)
(* NoFuture.                                                               *)

NoFuture == [kind |-> "None", done |-> FALSE, exc |-> NoExc]
Pending(kind) == [kind |-> kind, done |-> FALSE, exc |-> NoExc]
Finished(f, exc) == [f EXCEPT !.done = TRUE, !.exc = exc]

\* mutant: a wait state does not ask whether the future is done
FutureReady_Always(f) == f # NoFuture

\* `self._import_future and self._import_future.done()`
FutureReady(f) == f # NoFuture /\ f.done

JobStates == {"None", "init_sim", "wait_init", "create_importer", "wait_import",
              "reset", "wait_reset", "pause", "wait_pause", "done"}

-----------------------------------------------------------------------------
(* State after on_startup (lines 213-244, 380-396), with an empty stage,   *)
(* no SimulationContext and any of the files present.                      *)

NoCall ==
    [pc |-> "idle", prim_path |-> "", resolved_path |-> EmptyPath, groundplane |-> FALSE,
     manage_simulation |-> FALSE, sim |-> NoSim, importer |-> NoImporter, exc |-> NoExc,
     result |-> "", collision |-> NoExc]

\* no scene function was called directly yet
NoScript ==
    [fn |-> "None", arg |-> "", exc |-> NoExc, value |-> "", before |-> EmptyStage,
     repeat |-> FALSE]

\* no job was accepted yet
NoRequest == [prim_path |-> "", input_file |-> EmptyPath]

\* the entry points of MatterportImporter that import the terrain
LoadEntries == {"setup_async", "load_world_async", "load_matterport"}

\* a coroutine of an entry point that was not created yet
NoLoad == [entry |-> "None", pc |-> "None", exc |-> NoExc, did |-> {}]

\* no importer was constructed by the script yet
NoLoader == [imp |-> NoImporter, loads |-> [k \in 1..MaxLoads |-> NoLoad]]

Init ==
    /\ _prim_path = "/World/terrain"
    /\ _input_file = EmptyPath
    /\ _import_btn_enabled = FALSE
    /\ _status_label = "Ready"
    /\ _import_running = FALSE
    /\ _import_state = "None"
    /\ _import_future = NoFuture
    /\ _sim = NoSim
    /\ _importer = NoImporter
    /\ sim_instance = NoSim
    /\ files \in SUBSET FileUniverse
    /\ stage = EmptyStage
    /\ log_error = NoExc
    /\ escaped = FALSE
    /\ warned_running = FALSE
    /\ edits = 0
    /\ calls = [c \in 1..MaxCalls |-> NoCall]
    /\ script = NoScript
    /\ request = NoRequest
    /\ loader = NoLoader

-----------------------------------------------------------------------------
(* User interface callbacks *)

\* prim_model value_changed_fn (line 357)
PrimPathChanged(v) ==
    /\ edits < MaxEdits
    /\ edits' = edits + 1
    /\ _prim_path' = v
    /\ UNCHANGED <<_input_file, _import_btn_enabled, _status_label, job_vars, world_vars,
                   log_vars, calls, loader>>

\* _is_mesh_file(path)
_is_mesh_file(path) == Lower(SplitExt(path)[2]) \in {".obj", ".usd"}

\* _on_file_change(model) (lines 360-367)
_on_file_change(val) ==
    /\ edits < MaxEdits
    /\ edits' = edits + 1
    /\ IF _is_mesh_file(val)
       THEN _input_file' = val /\ _import_btn_enabled' = TRUE
       ELSE _input_file' = _input_file /\ _import_btn_enabled' = FALSE
    /\ UNCHANGED <<_prim_path, _status_label, job_vars, world_vars, log_vars, calls, loader>>

\* lines 418-423: a relative path that exists under the extension's data
\* directory is replaced by that file
ResolvedInput(input_file, fs) ==
    IF ~IsAbs(input_file) /\ Join(ExtDataDir, input_file) \in fs
    THEN Join(ExtDataDir, input_file)
    ELSE input_file

\* mutant: the guard is missing
ImportAlreadyRunning_Never == FALSE

\* "prevent overlapping imports for advanced path" (line 439)
ImportAlreadyRunning == _import_running

\* mutant: an accepted request keeps the future the last job left behind
_start_import_KeepsFuture ==
    IF _input_file = EmptyPath
    THEN /\ _status_label' = "No input file selected"
         /\ UNCHANGED <<_prim_path, _input_file, _import_btn_enabled, job_vars, world_vars,
                        log_vars, calls, loader, edits>>
    ELSE LET input_file == ResolvedInput(_input_file, files)
         IN  /\ _input_file' = input_file
             /\ IF EndsWithUsd(input_file)
                THEN LET r == import_matterport_usd_reference(stage, _prim_path, input_file)
                     IN  /\ stage' = r.stage
                         /\ _status_label' = IF r.exc = NoExc
                                             THEN "USD imported successfully"
                                             ELSE "Import failed: " \o r.exc
                         /\ UNCHANGED <<_import_btn_enabled, job_vars, warned_running, request>>
                ELSE IF ImportAlreadyRunning
                THEN /\ warned_running' = TRUE
                     /\ UNCHANGED <<_import_btn_enabled, _status_label, job_vars, stage,
                                    request>>
                ELSE /\ _import_running' = TRUE
                     /\ _import_state' = "init_sim"
                     /\ _import_future' = _import_future
                     /\ _import_btn_enabled' = FALSE
                     /\ request' = [prim_path |-> _prim_path, input_file |-> input_file]
                     /\ UNCHANGED <<_status_label, _sim, _importer, stage, warned_running>>
             /\ UNCHANGED <<_prim_path, sim_instance, files, log_error, escaped, calls, loader, edits,
                            script>>

\* _start_import (lines 411-446), with _simple_import_usd (lines 455-462)
_start_import ==
    IF _input_file = EmptyPath
    THEN /\ _status_label' = "No input file selected"
         /\ UNCHANGED <<_prim_path, _input_file, _import_btn_enabled, job_vars, world_vars,
                        log_vars, calls, loader, edits>>
    ELSE LET input_file == ResolvedInput(_input_file, files)
         IN  /\ _input_file' = input_file
             /\ IF EndsWithUsd(input_file)
                THEN LET r == import_matterport_usd_reference(stage, _prim_path, input_file)
                     IN  /\ stage' = r.stage
                         /\ _status_label' = IF r.exc = NoExc
                                             THEN "USD imported successfully"
                                             ELSE "Import failed: " \o r.exc
                         /\ UNCHANGED <<_import_btn_enabled, job_vars, warned_running, request>>
                ELSE IF ImportAlreadyRunning
                THEN /\ warned_running' = TRUE
                     /\ UNCHANGED <<_import_btn_enabled, _status_label, job_vars, stage,
                                    request>>
                ELSE /\ _import_running' = TRUE
                     /\ _import_state' = "init_sim"
                     /\ _import_future' = NoFuture
                     /\ _import_btn_enabled' = FALSE
                     /\ request' = [prim_path |-> _prim_path, input_file |-> input_file]
                     /\ UNCHANGED <<_status_label, _sim, _importer, stage, warned_running>>
             /\ UNCHANGED <<_prim_path, sim_instance, files, log_error, escaped, calls, loader, edits,
                            script>>

\* _apply_physics_sync (lines 465-479)
_apply_physics_sync ==
    \E coll_ok \in BOOLEAN :
    LET r == apply_matterport_collision(stage, _prim_path, coll_ok)
    IN  /\ stage' = r.stage
        /\ _status_label' = IF r.exc = NoExc THEN "Collision applied"
                            ELSE "Apply Physics failed: " \o r.exc
        /\ UNCHANGED <<_prim_path, _input_file, _import_btn_enabled, job_vars, sim_instance,
                       files, log_vars, calls, loader, edits>>

\* _add_ground_plane_sync (lines 481-497)
_add_ground_plane_sync ==
    /\ \E coll_ok \in BOOLEAN :
          stage' = ensure_hidden_ground_plane(stage, GroundPlanePath, coll_ok)
    /\ _status_label' = "Ground plane added (hidden)"
    /\ UNCHANGED <<_prim_path, _input_file, _import_btn_enabled, job_vars, sim_instance,
                   files, log_vars, calls, loader, edits>>

-----------------------------------------------------------------------------
(* The per-frame driver _on_update (lines 246-315) *)

\* mutant: the handler logs the error and keeps _import_running set
HandleException_KeepsGuard(exc) ==
    /\ log_error' = exc
    /\ _import_btn_enabled' = TRUE
    /\ UNCHANGED <<_import_running, escaped>>

\* the except clause (lines 311-315); an exception it does not catch leaves
\* _on_update
HandleException(exc) ==
    IF IsException(exc)
    THEN /\ log_error' = exc
         /\ _import_running' = FALSE
         /\ _import_btn_enabled' = TRUE
         /\ escaped' = escaped
    ELSE /\ escaped' = TRUE
         /\ UNCHANGED <<log_error, _import_running, _import_btn_enabled>>

\* mutant: "wait_reset" goes back to "reset" instead of on to "pause"
AfterWait_Loop(state) ==
    CASE state = "wait_init" -> "create_importer"
      [] state = "wait_import" -> "reset"
      [] state = "wait_reset" -> "reset"
      [] state = "wait_pause" -> "done"

\* the state a wait state moves to once its future succeeded
AfterWait(state) ==
    CASE state = "wait_init" -> "create_importer"
      [] state = "wait_import" -> "reset"
      [] state = "wait_reset" -> "pause"
      [] state = "wait_pause" -> "done"

\* mutant: a failed future sends the job back to the state that issued it
WaitStep_Retry ==
    IF FutureReady(_import_future)
    THEN IF _import_future.exc # NoExc
         THEN /\ log_error' = _import_future.exc
              /\ _import_future' = NoFuture
              /\ _import_state' = CASE _import_state = "wait_init" -> "init_sim"
                                     [] _import_state = "wait_import" -> "create_importer"
                                     [] _import_state = "wait_reset" -> "reset"
                                     [] _import_state = "wait_pause" -> "pause"
              /\ UNCHANGED <<_import_running, _import_btn_enabled, escaped>>
         ELSE /\ _import_future' = NoFuture
              /\ _import_state' = AfterWait(_import_state)
              /\ UNCHANGED <<log_error, _import_running, _import_btn_enabled, escaped>>
    ELSE UNCHANGED <<_import_state, _import_future, log_error, _import_running,
                     _import_btn_enabled, escaped>>

\* mutant: the frame that sees the import finished issues the reset as well
WaitStep_AndIssue ==
    IF FutureReady(_import_future)
    THEN IF _import_future.exc # NoExc
         THEN /\ HandleException(_import_future.exc)
              /\ UNCHANGED <<_import_state, _import_future>>
         ELSE /\ IF _import_state = "wait_import"
                 THEN _import_future' = Pending("reset") /\ _import_state' = "wait_reset"
                 ELSE _import_future' = NoFuture /\ _import_state' = AfterWait(_import_state)
              /\ UNCHANGED <<log_error, _import_running, _import_btn_enabled, escaped>>
    ELSE UNCHANGED <<_import_state, _import_future, log_error, _import_running,
                     _import_btn_enabled, escaped>>

\* mutant: a future that succeeded is not set to None
WaitStep_KeepsFuture ==
    IF FutureReady(_import_future)
    THEN IF _import_future.exc # NoExc
         THEN /\ HandleException(_import_future.exc)
              /\ UNCHANGED <<_import_state, _import_future>>
         ELSE /\ _import_future' = _import_future
              /\ _import_state' = AfterWait(_import_state)
              /\ UNCHANGED <<log_error, _import_running, _import_btn_enabled, escaped>>
    ELSE UNCHANGED <<_import_state, _import_future, log_error, _import_running,
                     _import_btn_enabled, escaped>>

\* the body of a wait state (lines 257-264, 273-280, 285-292, 296-305)
WaitStep ==
    IF FutureReady(_import_future)
    THEN IF _import_future.exc # NoExc
         THEN /\ HandleException(_import_future.exc)
              /\ UNCHANGED <<_import_state, _import_future>>
         ELSE /\ _import_future' = NoFuture
              /\ _import_state' = AfterWait(_import_state)
              /\ UNCHANGED <<log_error, _import_running, _import_btn_enabled, escaped>>
    ELSE UNCHANGED <<_import_state, _import_future, log_error, _import_running,
                     _import_btn_enabled, escaped>>

\* state "init_sim" (lines 250-256); ctor_ok: SimulationContext(...) returns
InitSimStep(ctor_ok) ==
    IF ctor_ok
    THEN /\ sim_instance' = NewSim
         /\ _sim' = NewSim
         /\ _import_future' = Pending("init")
         /\ _import_state' = "wait_init"
         /\ UNCHANGED <<log_error, _import_running, _import_btn_enabled, escaped>>
    ELSE /\ sim_instance' = NoSim
         /\ HandleException("RuntimeError")
         /\ UNCHANGED <<_sim, _import_future, _import_state>>

\* state "create_importer" (lines 265-272)
CreateImporterStep ==
    LET r == MatterportImporter(_prim_path, _input_file, FALSE, sim_instance)
    IN  IF r.exc = NoExc
        THEN /\ _importer' = r.imp
             /\ _import_future' = Pending("load")
             /\ _import_state' = "wait_import"
             /\ UNCHANGED <<log_error, _import_running, _import_btn_enabled, escaped>>
        ELSE /\ HandleException(r.exc)
             /\ UNCHANGED <<_importer, _import_future, _import_state>>

\* mutant: the frame dispatches on the recorded state whether or not a job
\* is running
_on_update_Unguarded ==
    \/ /\ _import_state = "None"
       /\ UNCHANGED vars
    \/ /\ TRUE
       /\ _import_state = "init_sim"
       /\ \E ctor_ok \in BOOLEAN : InitSimStep(ctor_ok)
       /\ UNCHANGED <<_prim_path, _input_file, _status_label, _importer, files, stage,
                      warned_running, script, request, calls, loader, edits>>
    \/ /\ TRUE
       /\ _import_state \in {"wait_init", "wait_import", "wait_reset", "wait_pause"}
       /\ WaitStep
       /\ UNCHANGED <<_prim_path, _input_file, _status_label, _sim, _importer, world_vars,
                      warned_running, script, request, calls, loader, edits>>
    \/ /\ TRUE
       /\ _import_state = "create_importer"
       /\ CreateImporterStep
       /\ UNCHANGED <<_prim_path, _input_file, _status_label, _sim, world_vars,
                      warned_running, script, request, calls, loader, edits>>
    \/ /\ TRUE
       /\ _import_state = "reset"
       /\ _import_future' = Pending("reset")
       /\ _import_state' = "wait_reset"
       /\ UNCHANGED <<ui_vars, _import_running, _sim, _importer, world_vars, log_vars,
                      calls, loader, edits>>
    \/ /\ TRUE
       /\ _import_state = "pause"
       /\ _import_future' = Pending("pause")
       /\ _import_state' = "wait_pause"
       /\ UNCHANGED <<ui_vars, _import_running, _sim, _importer, world_vars, log_vars,
                      calls, loader, edits>>
    \/ /\ TRUE
       /\ _import_state = "done"
       /\ _import_running' = FALSE
       /\ _import_btn_enabled' = TRUE
       /\ UNCHANGED <<_prim_path, _input_file, _status_label, _import_state, _import_future,
                      _sim, _importer, world_vars, log_vars, calls, loader, edits>>

_on_update ==
    \/ /\ ~_import_running
       /\ UNCHANGED vars
    \/ /\ _import_running
       /\ _import_state = "init_sim"
       /\ \E ctor_ok \in BOOLEAN : InitSimStep(ctor_ok)
       /\ UNCHANGED <<_prim_path, _input_file, _status_label, _importer, files, stage,
                      warned_running, script, request, calls, loader, edits>>
    \/ /\ _import_running
       /\ _import_state \in {"wait_init", "wait_import", "wait_reset", "wait_pause"}
       /\ WaitStep
       /\ UNCHANGED <<_prim_path, _input_file, _status_label, _sim, _importer, world_vars,
                      warned_running, script, request, calls, loader, edits>>
    \/ /\ _import_running
       /\ _import_state = "create_importer"
       /\ CreateImporterStep
       /\ UNCHANGED <<_prim_path, _input_file, _status_label, _sim, world_vars,
                      warned_running, script, request, calls, loader, edits>>
    \/ /\ _import_running
       /\ _import_state = "reset"
       /\ _import_future' = Pending("reset")
       /\ _import_state' = "wait_reset"
       /\ UNCHANGED <<ui_vars, _import_running, _sim, _importer, world_vars, log_vars,
                      calls, loader, edits>>
    \/ /\ _import_running
       /\ _import_state = "pause"
       /\ _import_future' = Pending("pause")
       /\ _import_state' = "wait_pause"
       /\ UNCHANGED <<ui_vars, _import_running, _sim, _importer, world_vars, log_vars,
                      calls, loader, edits>>
    \/ /\ _import_running
       /\ _import_state = "done"
       /\ _import_running' = FALSE
       /\ _import_btn_enabled' = TRUE
       /\ UNCHANGED <<_prim_path, _input_file, _status_label, _import_state, _import_future,
                      _sim, _importer, world_vars, log_vars, calls, loader, edits>>

-----------------------------------------------------------------------------
(* Kit's event loop runs the coroutines handed to run_coroutine *)

\* a simulation coroutine of the job (initialize_simulation_context_async,
\* reset_async, pause_async) finishes, with or without an exception
SimTaskCompletes(ok) ==
    /\ _import_future.kind \in {"init", "reset", "pause"}
    /\ ~_import_future.done
    /\ _import_future' = Finished(_import_future, IF ok THEN NoExc ELSE "RuntimeError")
    /\ UNCHANGED <<ui_vars, _import_running, _import_state, _sim, _importer, world_vars,
                   log_vars, calls, loader, edits>>

\* the job's load_world_async coroutine runs to its next await, or ends
LoadTaskRuns(conv_ok, coll_ok) ==
    /\ _import_future.kind = "load"
    /\ ~_import_future.done
    /\ ImporterRunning(_importer)
    /\ LET r == ImporterStep(_importer, files, stage, conv_ok, coll_ok)
       IN  /\ _importer' = r.imp
           /\ files' = r.files
           /\ stage' = r.stage
           /\ _import_future' =
                 CASE r.imp.pc = "returned" -> Finished(_import_future, NoExc)
                   [] r.imp.pc = "raised" -> Finished(_import_future, r.imp.exc)
                   [] OTHER -> _import_future
    /\ UNCHANGED <<ui_vars, _import_running, _import_state, _sim, sim_instance,
                   log_vars, calls, loader, edits>>

-----------------------------------------------------------------------------
(* import_matterport_asset_async (lines 128-175).  import_matterport_asset *)
(* (lines 178-196) hands the same coroutine to run_coroutine.  An          *)
(* activation is a record of its arguments, its locals (resolved_path,     *)
(* sim, importer) and the await it is suspended at:                        *)
(*   "idle"         not called yet                                         *)
(*   "await_init"   await sim.initialize_simulation_context_async() (155)  *)
(*   "await_load"   await importer.load_world_async()               (164)  *)
(*   "await_reset"  await sim.reset_async()                         (172)  *)
(*   "await_pause"  await sim.pause_async()                         (173)  *)
(*   "returned", "raised"   (the locals are gone)                          *)

CallRaised(exc, fs, st) ==
    [call |-> [NoCall EXCEPT !.pc = "raised", !.exc = exc], files |-> fs, stage |-> st]

\* lines 166-175: an exception of apply_matterport_collision is logged as a
\* warning (kept in the field collision), then the simulation the call
\* created (if any) is reset and paused
AfterImport(call, fs, st, coll_ok) ==
    LET r == apply_matterport_collision(st, call.prim_path, coll_ok)
    IN  IF call.sim # NoSim
        THEN [call |-> [call EXCEPT !.pc = "await_reset", !.collision = r.exc],
              files |-> fs, stage |-> r.stage]
        ELSE [call |-> [NoCall EXCEPT !.pc = "returned", !.result = ChildPath(call.prim_path),
                                      !.collision = r.exc],
              files |-> fs, stage |-> r.stage]

\* the importer's coroutine ran one step inside the call (line 164)
AfterLoadStep(call, r, coll_ok) ==
    CASE r.imp.pc = "raised" -> CallRaised(r.imp.exc, r.files, r.stage)
      [] r.imp.pc = "returned" ->
            AfterImport([call EXCEPT !.importer = r.imp], r.files, r.stage, coll_ok)
      [] OTHER ->
            [call |-> [call EXCEPT !.pc = "await_load", !.importer = r.imp],
             files |-> r.files, stage |-> r.stage]

\* lines 157-164: reference a .usd directly, import anything else through a
\* MatterportImporter; instance is SimulationContext.instance()
ImportPhase(call, fs, st, instance, coll_ok) ==
    IF EndsWithUsd(call.resolved_path)
    THEN LET r == import_matterport_usd_reference(st, call.prim_path, call.resolved_path)
         IN  IF r.exc # NoExc
             THEN CallRaised(r.exc, fs, st)
             ELSE AfterImport(call, fs,
                              IF call.groundplane
                              THEN ensure_hidden_ground_plane(r.stage, GroundPlanePath, coll_ok)
                              ELSE r.stage,
                              coll_ok)
    ELSE LET m == MatterportImporter(call.prim_path, call.resolved_path, call.groundplane,
                                     instance)
         IN  IF m.exc # NoExc
             THEN CallRaised(m.exc, fs, st)
             ELSE AfterLoadStep(call, ImporterStep(m.imp, fs, st, TRUE, coll_ok), coll_ok)

\* lines 144-148
ResolvedPath(input_path, resolve_relative_to, fs) ==
    IF ~IsAbs(input_path) /\ resolve_relative_to # "" /\ Join(resolve_relative_to, input_path) \in fs
    THEN Join(resolve_relative_to, input_path)
    ELSE input_path

\* the call up to its first await (lines 141-164); ctor_ok: SimulationContext(...)
\* returns; coll_ok: define_collision_properties applies the properties
CallBegins(c, prim_path, input_path, groundplane, manage_simulation, resolve_relative_to, ctor_ok, coll_ok) ==
    /\ calls[c].pc = "idle"
    /\ \A d \in 1..(c - 1) : calls[d].pc # "idle"
    /\ LET call == [NoCall EXCEPT !.prim_path = prim_path,
                                  !.resolved_path = ResolvedPath(input_path, resolve_relative_to, files),
                                  !.groundplane = groundplane,
                                  !.manage_simulation = manage_simulation]
       IN  IF input_path = EmptyPath
           THEN /\ calls' = [calls EXCEPT ![c] = CallRaised("ValueError", files, stage).call]
                /\ UNCHANGED world_vars
           ELSE IF manage_simulation
           THEN IF ctor_ok
                THEN /\ sim_instance' = NewSim
                     /\ calls' = [calls EXCEPT ![c] = [call EXCEPT !.sim = NewSim,
                                                                   !.pc = "await_init"]]
                     /\ UNCHANGED <<files, stage>>
                ELSE /\ sim_instance' = NoSim
                     /\ calls' = [calls EXCEPT ![c] = CallRaised("RuntimeError", files, stage).call]
                     /\ UNCHANGED <<files, stage>>
           ELSE LET r == ImportPhase(call, files, stage, sim_instance, coll_ok)
                IN  /\ calls' = [calls EXCEPT ![c] = r.call]
                    /\ files' = r.files
                    /\ stage' = r.stage
                    /\ UNCHANGED sim_instance
    /\ UNCHANGED <<ui_vars, job_vars, log_vars, loader>>

\* the simulation coroutine the call awaits finishes (lines 155, 172, 173)
CallSimTaskCompletes(c, ok, coll_ok) ==
    /\ calls[c].pc \in {"await_init", "await_reset", "await_pause"}
    /\ LET call == calls[c]
           r == CASE ~ok -> CallRaised("RuntimeError", files, stage)
                  [] ok /\ call.pc = "await_init" ->
                        ImportPhase(call, files, stage, sim_instance, coll_ok)
                  [] ok /\ call.pc = "await_reset" ->
                        [call |-> [call EXCEPT !.pc = "await_pause"], files |-> files,
                         stage |-> stage]
                  [] ok /\ call.pc = "await_pause" ->
                        [call |-> [NoCall EXCEPT !.pc = "returned",
                                                 !.result = ChildPath(call.prim_path),
                                                 !.collision = call.collision],
                         files |-> files, stage |-> stage]
       IN  /\ calls' = [calls EXCEPT ![c] = r.call]
           /\ files' = r.files
           /\ stage' = r.stage
    /\ UNCHANGED <<ui_vars, job_vars, sim_instance, log_vars, loader>>

\* the importer coroutine the call awaits runs to its next await, or ends
CallLoadRuns(c, conv_ok, coll_ok) ==
    /\ calls[c].pc = "await_load"
    /\ LET r == AfterLoadStep(calls[c],
                              ImporterStep(calls[c].importer, files, stage, conv_ok, coll_ok),
                              coll_ok)
       IN  /\ calls' = [calls EXCEPT ![c] = r.call]
           /\ files' = r.files
           /\ stage' = r.stage
    /\ UNCHANGED <<ui_vars, job_vars, sim_instance, log_vars, loader>>

-----------------------------------------------------------------------------
(* A script that constructs one MatterportImporter and starts its entry    *)
(* points, possibly while earlier activations are suspended at an await.   *)
(* loader.imp holds the fields of the instance, which the activations      *)
(* share; loader.loads[k] is activation k: its entry point, the await it   *)
(* is suspended at, the exception it raised, and which of import_usd       *)
(* ("import") and _apply_physics_async ("physics") returned in it.         *)

\* SimulationContext(SimulationCfg()) by the script: the importer's
\* constructor reads SimulationContext.instance().device (line 94)
SimulationContextCreated ==
    /\ sim_instance = NoSim
    /\ sim_instance' = NewSim
    /\ UNCHANGED <<ui_vars, job_vars, files, stage, log_vars, calls, loader>>

\* MatterportImporter(cfg) (lines 69-99); nothing is kept of a constructor
\* that raised
ImporterCreated(prim_path, obj_filepath, groundplane) ==
    /\ loader.imp.pc = "None"
    /\ LET r == MatterportImporter(prim_path, obj_filepath, groundplane, sim_instance)
       IN  loader' = [loader EXCEPT !.imp = r.imp]
    /\ UNCHANGED <<ui_vars, job_vars, world_vars, log_vars, calls>>

\* the script schedules entry() on the importer, as activation k
LoadBegins(k, entry) ==
    /\ loader.imp.pc # "None"
    /\ loader.loads[k].pc = "None"
    /\ \A j \in 1..(k - 1) : loader.loads[j].pc # "None"
    /\ loader' = [loader EXCEPT !.loads[k] = [NoLoad EXCEPT !.entry = entry,
                                                            !.pc = "scheduled"]]
    /\ UNCHANGED <<ui_vars, job_vars, world_vars, log_vars, calls>>

\* One run of the coroutine of entry point entry.  load_world_async awaits
\* update_stage_async() once more after setup_async (lines 169-171);
\* setup_async itself and load_matterport (lines 176-177) return where
\* load_world_async reaches that await.
EntryStep(entry, imp, fs, st, conv_ok, coll_ok) ==
    LET r == ImporterStep(imp, fs, st, conv_ok, coll_ok)
    IN  IF entry # "load_world_async" /\ r.imp.pc = "update_world"
        THEN [r EXCEPT !.imp.pc = "returned"]
        ELSE r

\* the event loop resumes activation k, which runs to its next await, its
\* return or its raise, on the fields of the instance as they are now
LoadRuns(k, conv_ok, coll_ok) ==
    /\ loader.loads[k].pc \notin {"None", "returned", "raised"}
    /\ LET load == loader.loads[k]
           self == [loader.imp EXCEPT !.pc = load.pc]
           r == EntryStep(load.entry, self, files, stage, conv_ok, coll_ok)
           did == load.did
                    \cup (IF load.pc = "sleep" /\ r.imp.pc = "update_import"
                          THEN {"import"} ELSE {})
                    \cup (IF load.pc = "update_import" /\ r.imp.pc = "update_physics"
                          THEN {"physics"} ELSE {})
       IN  /\ loader' = [loader EXCEPT
                            !.imp = [r.imp EXCEPT !.pc = "scheduled", !.exc = NoExc],
                            !.loads[k] = [load EXCEPT !.pc = r.imp.pc, !.exc = r.imp.exc,
                                                      !.did = did]]
           /\ files' = r.files
           /\ stage' = r.stage
    /\ UNCHANGED <<ui_vars, job_vars, sim_instance, log_vars, calls>>

NextImporter ==
    \/ SimulationContextCreated
    \/ \E prim_path \in PrimPaths, obj_filepath \in InputFiles \cup {Path("", "room", ".usd")},
          groundplane \in BOOLEAN :
          ImporterCreated(prim_path, obj_filepath, groundplane)
    \/ \E k \in 1..MaxLoads, entry \in LoadEntries : LoadBegins(k, entry)
    \/ \E k \in 1..MaxLoads, conv_ok, coll_ok \in BOOLEAN : LoadRuns(k, conv_ok, coll_ok)

\* one importer, driven by a script
SpecImporter == Init /\ [][NextImporter]_vars

-----------------------------------------------------------------------------

NextExt ==
    \/ \E v \in PrimPaths : PrimPathChanged(v)
    \/ \E val \in InputFiles \cup OtherFiles : _on_file_change(val)
    \/ _start_import
    \/ _on_update
    \/ \E ok \in BOOLEAN : SimTaskCompletes(ok)
    \/ \E conv_ok, coll_ok \in BOOLEAN : LoadTaskRuns(conv_ok, coll_ok)

\* the extension: its user interface, its per-frame driver and its tasks
Next == NextExt

Spec == Init /\ [][Next]_vars

-----------------------------------------------------------------------------
(* The module-level scene functions (lines 57-125), called directly by a   *)
(* script.  script records the call: the function, its prim path argument, *)
(* the exception it raised or the value it returned, the stage before the  *)
(* call, and whether the call before it was a call of the same function.   *)

\* the .usd files a script references
UsdFiles == {Path("", "room", ".usd"), Path("", "other", ".usd")}

ScriptCall(fn, arg, exc, value) ==
    [fn |-> fn, arg |-> arg, exc |-> exc, value |-> value, before |-> stage,
     repeat |-> (script.fn = fn)]

\* import_matterport_usd_reference(prim_path, usd_path) (lines 57-67)
ImportUsdReferenceCalled(prim_path, usd_path) ==
    LET r == import_matterport_usd_reference(stage, prim_path, usd_path)
    IN  /\ stage' = r.stage
        /\ script' = ScriptCall("import_matterport_usd_reference", prim_path, r.exc, r.value)
        /\ UNCHANGED <<ui_vars, job_vars, sim_instance, files, log_error, escaped,
                       warned_running, request, calls, loader>>

\* apply_matterport_collision(prim_path) (lines 70-83)
ApplyCollisionCalled(prim_path, coll_ok) ==
    LET r == apply_matterport_collision(stage, prim_path, coll_ok)
    IN  /\ stage' = r.stage
        /\ script' = ScriptCall("apply_matterport_collision", prim_path, r.exc, r.value)
        /\ UNCHANGED <<ui_vars, job_vars, sim_instance, files, log_error, escaped,
                       warned_running, request, calls, loader>>

\* ensure_hidden_ground_plane() (lines 86-125); it returns None
EnsureGroundPlaneCalled(coll_ok) ==
    /\ stage' = ensure_hidden_ground_plane(stage, GroundPlanePath, coll_ok)
    /\ script' = ScriptCall("ensure_hidden_ground_plane", GroundPlanePath, NoExc, "")
    /\ UNCHANGED <<ui_vars, job_vars, sim_instance, files, log_error, escaped,
                   warned_running, request, calls, loader>>

NextFns ==
    \/ \E prim_path \in PrimPaths, usd_path \in UsdFiles :
          ImportUsdReferenceCalled(prim_path, usd_path)
    \/ \E prim_path \in PrimPaths, coll_ok \in BOOLEAN : ApplyCollisionCalled(prim_path, coll_ok)
    \/ \E coll_ok \in BOOLEAN : EnsureGroundPlaneCalled(coll_ok)

\* a script that calls the scene functions in any order
SpecFns == Init /\ [][NextFns]_vars

\* the programmatic entry point, called by scripts
NextApi ==
    \/ \E c \in 1..MaxCalls, prim_path \in PrimPaths, input_path \in InputFiles \cup {EmptyPath},
          groundplane \in BOOLEAN, manage_simulation \in BOOLEAN,
          resolve_relative_to \in {"", ExtDataDir}, ctor_ok \in BOOLEAN, coll_ok \in BOOLEAN :
          CallBegins(c, prim_path, input_path, groundplane, manage_simulation,
                     resolve_relative_to, ctor_ok, coll_ok)
    \/ \E c \in 1..MaxCalls, ok \in BOOLEAN, coll_ok \in BOOLEAN :
          CallSimTaskCompletes(c, ok, coll_ok)
    \/ \E c \in 1..MaxCalls, conv_ok \in BOOLEAN, coll_ok \in BOOLEAN :
          CallLoadRuns(c, conv_ok, coll_ok)

SpecApi == Init /\ [][NextApi]_vars

\* every frame runs _on_update, and the event loop finishes every coroutine it
\* was handed
Fairness ==
    /\ WF_vars(_on_update)
    /\ WF_vars(\E ok \in BOOLEAN : SimTaskCompletes(ok))
    /\ WF_vars(\E conv_ok, coll_ok \in BOOLEAN : LoadTaskRuns(conv_ok, coll_ok))

FairSpec == Spec /\ Fairness

\* the extension, importing room.obj, together with a script that calls, once,
\* import_matterport_asset_async("/World/terrain", "room.USD") with
\* manage_simulation enabled
NextMixed ==
    \/ _on_file_change(Path("", "room", ".obj"))
    \/ _start_import
    \/ _on_update
    \/ \E ok \in BOOLEAN : SimTaskCompletes(ok)
    \/ \E conv_ok, coll_ok \in BOOLEAN : LoadTaskRuns(conv_ok, coll_ok)
    \/ \E ctor_ok \in BOOLEAN :
          CallBegins(1, "/World/terrain", Path("", "room", ".USD"), FALSE, TRUE, "", ctor_ok, TRUE)
    \/ \E ok \in BOOLEAN : CallSimTaskCompletes(1, ok, TRUE)

SpecMixed == Init /\ [][NextMixed]_vars

-----------------------------------------------------------------------------
(* Properties *)

\* the job ended in "done" / ended through the except clause
JobDone == _import_state = "done"
JobFailed == ~_import_running /\ _import_state \notin {"None", "done"}

\* a request _start_import treats as a convertible-mesh import
MeshRequest ==
    _input_file # EmptyPath /\ ~EndsWithUsd(ResolvedInput(_input_file, files))

\* C1: at most one frame-driven job is active: a job is entered (state
\* "init_sim") only by a request made while none is running, and a
\* convertible-mesh request made while one is running changes neither the
\* running flag, the job's state, the future it waits for, its simulation
\* context and importer, the stage nor the files.
C1_RejectedWhileRunning ==
    [][/\ (_start_import /\ _import_running /\ MeshRequest)
            => /\ _import_running'
               /\ _import_state' = _import_state
               /\ _import_future' = _import_future
               /\ UNCHANGED <<job_vars, world_vars>>
       /\ (_import_state' = "init_sim" /\ _import_state # "init_sim")
            => ~_import_running
      ]_vars

\* a request was rejected while the job waits for its import
C1_Witness ==
    /\ warned_running
    /\ _import_running
    /\ _import_state = "wait_import"
    /\ _import_future.kind = "load"

\* C2: a started job reaches "done" or fails (the running flag is dropped),
\* given that frames keep coming and every task completes.
C2_JobTerminates == _import_running ~> (JobDone \/ JobFailed)

\* a job went through every state to "done" and was cleaned up, no error logged
C2_Witness ==
    /\ JobDone
    /\ ~_import_running
    /\ log_error = NoExc
    /\ _importer.pc = "returned"

WaitStates == {"wait_init", "wait_import", "wait_reset", "wait_pause"}

\* the step is a frame of a running job in which the state's code raises: a
\* finished future holds an exception, MatterportImporter(cfg) raises, or
\* SimulationContext(...) raises (the job stays in "init_sim")
TickRaises ==
    /\ _on_update
    /\ _import_running
    /\ \/ /\ _import_state \in WaitStates
          /\ FutureReady(_import_future)
          /\ _import_future.exc # NoExc
       \/ /\ _import_state = "create_importer"
          /\ MatterportImporter(_prim_path, _input_file, FALSE, sim_instance).exc # NoExc
       \/ /\ _import_state = "init_sim"
          /\ _import_state' = "init_sim"

\* C3: _on_update never raises: whatever the state's code raises is caught in
\* the same frame, logged, and ends the job (the running flag is dropped);
\* no exception leaves _on_update.
C3_TickNeverRaises ==
    [][/\ ~escaped'
       /\ TickRaises => (~_import_running' /\ log_error' # NoExc)
      ]_vars

\* the job failed on the FileNotFoundError its import raised, caught by the frame
C3_Witness ==
    /\ JobFailed
    /\ _import_state = "wait_import"
    /\ _import_future.exc = "FileNotFoundError"
    /\ log_error = "FileNotFoundError"
    /\ ~escaped

\* C4 (as claimed): the guard is released as part of entering the terminal
\* state, so no job is in "done", or failed, with the running flag still set.
C4_Original == (JobDone \/ JobFailed) => ~_import_running

\* C4 (amended): a frame that catches an error drops the running flag in that
\* frame; the frame that enters "done" keeps it and the next frame, which
\* handles "done", drops it; a convertible-mesh request made while the flag
\* is down is accepted and starts a job in "init_sim" with no future.
C4_GuardReleased ==
    [][/\ TickRaises => ~_import_running'
       /\ (_import_state # "done" /\ _import_state' = "done") => _import_running'
       /\ (_on_update /\ _import_running /\ _import_state = "done") => ~_import_running'
       /\ (_start_import /\ ~_import_running /\ MeshRequest)
            => /\ _import_running'
               /\ _import_state' = "init_sim"
               /\ _import_future' = NoFuture
      ]_vars

\* a new job was accepted after an earlier one had failed
C4_Witness ==
    /\ _import_running
    /\ _import_state = "init_sim"
    /\ log_error # NoExc
    /\ _import_future = NoFuture

\* C5 (as claimed): a request made while a job is running mutates no prim and
\* no reference of the stage, whatever its source file.
C5_Original == [][(_start_import /\ _import_running) => stage' = stage]_vars

\* C8: the converter task is created only for an .obj whose .usd counterpart
\* does not exist at that moment; when the counterpart exists the coroutine
\* goes on without converting and without touching the file system, and the
\* import that follows registers {prim_path}/Matterport and references the
\* counterpart on the prim it creates.
C8_ConvertOnlyIfAbsent ==
    [][LET usd_path == UsdPathOf(_importer.obj_filepath)
           child == ChildPath(_importer.prim_path)
       IN  /\ (_importer.pc = "scheduled" /\ _importer'.pc = "convert")
                => /\ usd_path \notin files
                   /\ Lower(_importer.obj_filepath.ext) = ".obj"
           /\ (_importer.pc = "scheduled" /\ _importer'.pc # "scheduled" /\ usd_path \in files)
                => /\ _importer'.pc = "sleep"
                   /\ _importer'.conv_status = "none"
                   /\ files' = files
           /\ (_importer.pc = "sleep" /\ _importer'.pc = "update_import")
                => /\ usd_path \in files
                   /\ child \in _importer'.terrain_prim_paths
                   /\ child \in stage'.prims
                   /\ child \notin stage.prims => stage'.refs[child] = <<usd_path>>
      ]_vars

\* an .obj whose counterpart existed was imported without a conversion
C8_Witness ==
    /\ _importer.pc = "update_import"
    /\ _importer.conv_status = "none"
    /\ Lower(_importer.obj_filepath.ext) = ".obj"
    /\ stage.refs[ChildPath(_importer.prim_path)] = <<UsdPathOf(_importer.obj_filepath)>>

\* C9 (as claimed): after a successful conversion the job does not fail on its
\* import, and a job that failed after an unsuccessful conversion recorded
\* the error ConversionFailed.
C9_Original ==
    /\ (_importer.conv_status = "ok" /\ _import_state = "wait_import") => _import_running
    /\ (_importer.conv_status = "failed" /\ _import_state = "wait_import" /\ JobFailed)
         => log_error = "ConversionFailed"

\* C10 (as claimed): a request with an empty source path or an empty container
\* path is rejected before a job exists: it changes no field of the job.
C10_Original ==
    [][(_start_import /\ (_input_file = EmptyPath \/ _prim_path = ""))
         => UNCHANGED job_vars]_vars

IssuingStates == {"init_sim", "create_importer", "reset", "pause"}

\* the order of the job's states
Successor(state) ==
    CASE state = "init_sim" -> "wait_init"
      [] state = "wait_init" -> "create_importer"
      [] state = "create_importer" -> "wait_import"
      [] state = "wait_import" -> "reset"
      [] state = "reset" -> "wait_reset"
      [] state = "wait_reset" -> "pause"
      [] state = "wait_pause" -> "done"
      [] state = "pause" -> "wait_pause"

\* the task a wait state waits for
KindOf(state) ==
    CASE state = "wait_init" -> "init"
      [] state = "wait_import" -> "load"
      [] state = "wait_reset" -> "reset"
      [] state = "wait_pause" -> "pause"

\* C13 (as claimed): the frame in which the job fails puts the captured error
\* on the status label, and the frame in which it enters "done" puts a
\* success text there.
C13_Original ==
    [][/\ TickRaises => _status_label' = "Import failed: " \o log_error'
       /\ (_import_state # "done" /\ _import_state' = "done")
            => _status_label' \in {"Imported successfully", "USD imported successfully"}
      ]_vars

\* C14: the frame in which the job fails changes neither the stage, the
\* files, the job's SimulationContext and importer, its state nor its future
\* (the singleton is touched only by the clear_instance() of a failing
\* "init_sim" itself); no step ever removes a prim; and a failed job stays as
\* it is, nothing of it is issued again, until a new request is accepted.
C14_NoRollbackNoRetry ==
    [][/\ TickRaises
            => /\ stage' = stage /\ files' = files
               /\ _sim' = _sim /\ _importer' = _importer
               /\ _import_state' = _import_state /\ _import_future' = _import_future
               /\ ~_import_running'
               /\ _import_state # "init_sim" => sim_instance' = sim_instance
       /\ stage.prims \subseteq stage'.prims
       /\ (JobFailed /\ ~_import_running') => UNCHANGED <<job_vars, sim_instance>>
      ]_vars

\* the job failed on its reset; the prim its import created is still there
C14_Witness ==
    /\ JobFailed
    /\ _import_state = "wait_reset"
    /\ _import_future.exc = "RuntimeError"
    /\ ChildPath(_importer.prim_path) \in stage.prims
    /\ sim_instance = _sim /\ _sim # NoSim

\* C16: the job's state changes only to the next state of the order, and a
\* wait state is left only when the future of its own task is done without
\* an exception; "init_sim" is entered only by a request accepted while no
\* job runs.
C16_Sequential ==
    [][(_import_state' # _import_state)
         => \/ _import_state' = "init_sim" /\ ~_import_running /\ _import_running'
            \/ /\ _import_running
               /\ _import_state \notin {"None", "done"}
               /\ _import_state' = Successor(_import_state)
               /\ _import_state \in WaitStates
                    => /\ _import_future.kind = KindOf(_import_state)
                       /\ _import_future.done
                       /\ _import_future.exc = NoExc
      ]_vars

\* a job went through all its states
C16_Witness ==
    /\ _import_running
    /\ _import_state = "done"
    /\ _importer.pc = "returned"
    /\ _sim = sim_instance /\ _sim # NoSim

\* C17: a frame moves the job by at most one state; it changes the future
\* only by issuing one task from an issuing state that holds none, or by
\* dropping the finished one in a wait state; a frame in a wait state issues
\* nothing and creates nothing.
C17_OneUnitPerTick ==
    [][_on_update
         => /\ \/ _import_state' = _import_state
               \/ /\ _import_state \notin {"None", "done"}
                  /\ _import_state' = Successor(_import_state)
            /\ (_import_future' # _import_future)
                 => \/ /\ _import_state \in IssuingStates
                       /\ _import_future = NoFuture
                       /\ _import_future' = Pending(KindOf(Successor(_import_state)))
                    \/ /\ _import_state \in WaitStates
                       /\ _import_future.done
                       /\ _import_future' = NoFuture
            /\ _import_state \in WaitStates
                 => /\ _import_future' \in {_import_future, NoFuture}
                    /\ UNCHANGED <<_sim, _importer, world_vars>>
      ]_vars

\* a frame saw the import finished and left the reset to the next frame
C17_Witness ==
    /\ _import_running
    /\ _import_state = "reset"
    /\ _import_future = NoFuture
    /\ _importer.pc = "returned"

\* C18: while a job runs it holds no future in "init_sim", "create_importer",
\* "reset", "pause" and "done", and in a wait state it holds the future of
\* that state's task; the importer's coroutine is in flight only while its
\* future is the one held.
C18_OneHandle ==
    /\ _import_running
         => /\ _import_state \in IssuingStates \cup {"done"} => _import_future = NoFuture
            /\ _import_state \in WaitStates
                 => _import_future # NoFuture /\ _import_future.kind = KindOf(_import_state)
    /\ ImporterRunning(_importer)
         => _import_future.kind = "load" /\ ~_import_future.done

\* the job waits for its pause and holds that future
C18_Witness ==
    /\ _import_running
    /\ _import_state = "wait_pause"
    /\ _import_future = Pending("pause")

\* C19 (as claimed): the frame that sees a finished future, failed or not,
\* leaves the job without a future.
C19_Original ==
    [][(_on_update /\ _import_running /\ _import_state \in WaitStates
          /\ _import_future # NoFuture /\ _import_future.done)
         => _import_future' = NoFuture]_vars

\* C21 (as claimed): from the frame that created it to the end of the job,
\* the SimulationContext the job holds is the singleton: nothing else clears
\* or replaces it while the job runs.
C21_Original ==
    (_import_running /\ _import_state \notin {"None", "init_sim"})
        => (sim_instance = _sim /\ _sim # NoSim)

\* C22 (as claimed): the frame of "create_importer" builds the importer from
\* the prim path and the input file the request had when it was accepted.
C22_Original ==
    [][(_on_update /\ _import_running /\ _import_state = "create_importer")
         => MatterportImporter(_prim_path, _input_file, FALSE, sim_instance)
              = MatterportImporter(request.prim_path, request.input_file, FALSE, sim_instance)
      ]_vars

\* C23: a frame that finds no job running changes nothing at all: no field
\* of the job, no future, neither the SimulationContext nor the stage; so
\* also in every frame after a job failed, whose state and finished future
\* are still there.
C23_IdleTickNoOp ==
    [][(_on_update /\ ~_import_running) => UNCHANGED vars]_vars

\* a failed job: its wait state and its failed future are still recorded,
\* and the Import button was disabled again by an edit after the failure
C23_Witness ==
    /\ JobFailed
    /\ _import_state \in WaitStates
    /\ _import_future.done /\ _import_future.exc # NoExc
    /\ ~_import_btn_enabled

\* C24: the step that starts a job is an accepted _start_import, and it
\* leaves the job in "init_sim" without a future, whatever the last job left
\* behind; and a wait state is always entered with the future just issued,
\* not yet done.
C24_CleanStart ==
    [][/\ (~_import_running /\ _import_running')
            => /\ _start_import
               /\ _import_state' = "init_sim"
               /\ _import_future' = NoFuture
       /\ (_import_state' \in WaitStates /\ _import_state' # _import_state)
            => _import_future' = Pending(KindOf(_import_state'))
      ]_vars

\* a second job was accepted after the first one ended in "done"; the
\* importer of the first is still there
C24_Witness ==
    /\ _import_running
    /\ _import_state = "init_sim"
    /\ _import_future = NoFuture
    /\ _importer.pc = "returned"

-----------------------------------------------------------------------------
(* Properties of one MatterportImporter driven by a script *)

\* the activations in which import_usd returned
Importing == {k \in 1..MaxLoads : "import" \in loader.loads[k].did}

-----------------------------------------------------------------------------
(* Properties of import_matterport_asset_async *)

SimAwaits == {"await_init", "await_reset", "await_pause"}
InProgress(c) == calls[c].pc \in SimAwaits \cup {"await_load"}

\* C6 (as claimed): a call whose source ends in .usd never holds a
\* SimulationContext and never awaits its initialize, reset or pause.
C6_Original ==
    \A c \in 1..MaxCalls :
        EndsWithUsd(calls[c].resolved_path)
            => calls[c].sim = NoSim /\ calls[c].pc \notin SimAwaits

\* C7 (as claimed): a call made while another is in progress is rejected at
\* once, so no two calls are in progress together, and the instance a call in
\* progress created is still the singleton.
C7_Original ==
    /\ \A c, d \in 1..MaxCalls : (c # d) => ~(InProgress(c) /\ InProgress(d))
    /\ \A c \in 1..MaxCalls :
          (InProgress(c) /\ calls[c].sim # NoSim) => sim_instance = calls[c].sim

\* C15 (as claimed): a call whose source ends in .usd never waits for a task,
\* and a call that returned names a prim that exists.
C15_Original ==
    \A c \in 1..MaxCalls :
        /\ EndsWithUsd(calls[c].resolved_path)
             => calls[c].pc \notin SimAwaits \cup {"await_load"}
        /\ calls[c].pc = "returned" => PrimValid(stage, calls[c].result)

\* C20 (as claimed): a call in which a step failed issues no later step and
\* does not return a path: once the collision application of a call failed,
\* the call neither awaits reset or pause nor returns.
C20_Original ==
    \A c \in 1..MaxCalls :
        calls[c].collision # NoExc
            => calls[c].pc \notin {"await_reset", "await_pause", "returned"}

-----------------------------------------------------------------------------
(* Properties of the module-level scene functions *)

PlanePath == GroundPlanePath \o "/Plane"

\* C11: apply_matterport_collision(prim_path) called while no prim exists at
\* {prim_path}/Matterport raises RuntimeError ("Matterport prim not found")
\* and leaves the stage exactly as it was before the call.
C11_CollisionNeedsPrim ==
    (script.fn = "apply_matterport_collision"
        /\ ~PrimValid(script.before, ChildPath(script.arg)))
      => /\ script.exc = "RuntimeError"
         /\ script.value = ""
         /\ stage = script.before

\* the call failed on a stage that holds other prims and left them alone
C11_Witness ==
    /\ script.fn = "apply_matterport_collision"
    /\ script.arg = "/World/terrain"
    /\ script.exc = "RuntimeError"
    /\ script.before.prims # {}
    /\ stage = script.before

\* C12: a call of ensure_hidden_ground_plane that directly follows another
\* one succeeds and changes nothing of the structure: the prims, references
\* and hidden prims after it are those before it, among them the one plane
\* prim, and no collider is lost; and every call of it, the first included,
\* succeeds and leaves that plane in place, hidden.
C12_GroundPlaneIdempotent ==
    (script.fn = "ensure_hidden_ground_plane")
      => /\ script.exc = NoExc
         /\ PlanePath \in stage.prims
         /\ PlanePath \in stage.invisible
         /\ script.repeat
              => /\ stage.prims = script.before.prims
                 /\ stage.refs = script.before.refs
                 /\ stage.invisible = script.before.invisible
                 /\ script.before.colliders \subseteq stage.colliders

\* the second of two calls in succession, on a stage that holds an import
C12_Witness ==
    /\ script.fn = "ensure_hidden_ground_plane"
    /\ script.repeat
    /\ PlanePath \in script.before.prims
    /\ ChildPath("/World/terrain") \in stage.prims

\* C26: a call import_matterport_usd_reference(prim_path, usd_path) that
\* returns leaves exactly one reference on {prim_path}/Matterport, the
\* usd_path of this call, whatever the calls before it composed there; the
\* prims that existed are kept with their collision and visibility
\* attributes, and the references of the other prims are untouched; and the
\* same call made again would leave the stage as it is.
C26_ReferenceReplaced ==
    [][\A prim_path \in PrimPaths, usd_path \in UsdFiles :
          (ImportUsdReferenceCalled(prim_path, usd_path) /\ script'.exc = NoExc)
            => /\ script'.value = ChildPath(prim_path)
               /\ stage'.refs[ChildPath(prim_path)] = <<usd_path>>
               /\ stage.prims \subseteq stage'.prims
               /\ stage'.prims \ stage.prims \subseteq {prim_path, ChildPath(prim_path)}
               /\ stage'.colliders = stage.colliders
               /\ stage'.invisible = stage.invisible
               /\ \A q \in DOMAIN stage.refs \ {ChildPath(prim_path)} :
                      stage'.refs[q] = stage.refs[q]
               /\ import_matterport_usd_reference(stage', prim_path, usd_path).stage = stage'
      ]_vars

\* a re-import: the child prim existed, with a collider and a reference to
\* another file, and now references the file of the last call only
C26_Witness ==
    /\ script.fn = "import_matterport_usd_reference"
    /\ script.repeat
    /\ script.exc = NoExc
    /\ script.value \in script.before.prims
    /\ script.value \in stage.colliders
    /\ Len(script.before.refs[script.value]) = 1
    /\ stage.refs[script.value] # script.before.refs[script.value]
    /\ Len(stage.refs[script.value]) = 1

====
